---- MODULE Spec2Model ----
(***************************************************************************)
(* Model of the Timer class of src/src/timing/timing.py: a stopwatch with  *)
(* the fields starttime, result, unit and callback, its operations start,  *)
(* current, stop, restart, get and measure, and its context manager        *)
(* protocol.  Every method is one action; the methods that run user code   *)
(* in their middle (measure, the with statement) are a Begin action up to  *)
(* the call of the user code and an End action from its return or raise.   *)
(***************************************************************************)
EXTENDS Integers, Sequences, FiniteSets, TLC

\* ---------------------------------------------------------------- bounds
\* largest reading of the clock
MaxClock == 1
\* deepest nesting of measure calls and with blocks in progress
MaxDepth == 1
\* the most timers the module-level functions construct
MaxTimers == 2
\* the most decorators and timed callables kept at a time
MaxWrapped == 2
\* the largest elapsed time, in nanoseconds, of the conversion specification
MaxNanos == 125

\* ------------------------------------------------------- optional values
\* Python's None for an Optional[int] field, and a present value
None == {}
Some(x) == {x}
Val(o) == CHOOSE x \in o : TRUE

\* --------------------------------------------------------------- domains
\* TimerUnit
SupportedUnits == {"seconds", "milliseconds", "microseconds", "nanoseconds"}
\* units a caller can pass: Python does not enforce the Literal type
Units == SupportedUnits \cup {"hours"}
\* the unit argument of a call: None (use self.unit) or a unit
UnitArgs == {"None"} \cup Units
\* the units the timers are constructed with: the default and an unsupported
\* one
DefaultUnits == {"seconds", "hours"}
\* the unit arguments the measuring calls (current, stop, restart, measure)
\* are made with; get is called with every one of UnitArgs
CallUnits == {"None", "milliseconds", "hours"}
\* callables a Timer can be constructed with: none, one that records its
\* argument, one that raises
Callbacks == {"None", "cb1", "cbRaise"}
\* the callback argument of a call: True, False or an explicit callable
CallbackArgs == {"True", "False", "cb2"}
\* what the measured callable or the with body raises
BodyErrors == {"FnError"}
\* the errors raised with class TimerStateError
TimerStateErrors == {"AlreadyRunning", "NotRunning", "NoResult"}

Clock == 0..MaxClock
\* the threads of the concurrent specification
Threads == {1, 2}

VARIABLES
    now,        \* the reading time.time_ns() returns when called
    starttime,  \* Timer.starttime: None or the reading at start
    result,     \* Timer.result: None or elapsed nanoseconds
    unit,       \* Timer.unit, set by the constructor
    callback,   \* Timer.callback, set by the constructor
    stack,      \* the measure calls and with blocks in progress, innermost last
    op,         \* the method called last
    args,       \* the arguments of that call
    was_running,\* whether the timer was running when that call was made
    ret,        \* what that call returned or raised
    calls,      \* the callbacks that call invoked, in order
    body,       \* if that call ran user code (fn, a with body): how it ended
    wrapped,    \* the decorators and timed callables wrap has returned
    prevtimer,  \* the module's prevtimer: None or the index of a timer
    timers,     \* the timers the module-level functions have constructed
    threads,    \* per thread calling start(): where it is in the method
    single      \* the Timer of the single-file module under the same calls

\* the state outside the one timer and its caller
aux == <<wrapped, prevtimer, timers, threads, single>>

vars == <<now, starttime, result, unit, callback, stack,
          op, args, was_running, ret, calls, body,
          wrapped, prevtimer, timers, threads, single>>

\* ------------------------------------------------------ values and outcomes
NoneVal == [type |-> "none", n |-> 0, div |-> 1]
\* the return value of the measured callable
FnRet == [type |-> "obj", n |-> 0, div |-> 1]
Ok(v) == [kind |-> "ok", val |-> v, exc |-> "-"]
Raise(e) == [kind |-> "raise", val |-> NoneVal, exc |-> e]

\* a conversion by floor division, n // 1000 and so on, instead of n / 1e3
ConvertFloorDiv(n, u) ==
    LET d == CASE u = "nanoseconds" -> 1
               [] u = "microseconds" -> 1000
               [] u = "milliseconds" -> 1000000
               [] OTHER -> 1000000000
    IN  [type |-> "int", n |-> n \div d, div |-> 1]

\* get's conversion: nanoseconds returns the int, the others ret / 1eK
Convert(n, u) ==
    IF u = "nanoseconds" THEN [type |-> "int", n |-> n, div |-> 1]
    ELSE IF u = "microseconds" THEN [type |-> "float", n |-> n, div |-> 1000]
    ELSE IF u = "milliseconds" THEN [type |-> "float", n |-> n, div |-> 1000000]
    ELSE [type |-> "float", n |-> n, div |-> 1000000000]

\* get, reading an absent result as zero
getZeroDefault(res, u) ==
    LET uu == IF u = "None" THEN unit ELSE u
        n == IF res = None THEN 0 ELSE Val(res)
    IN  IF uu \in SupportedUnits THEN Ok(Convert(n, uu))
        ELSE Raise("UnsupportedUnit")

\* get, checking the unit before the result
getUnitFirst(res, u) ==
    LET uu == IF u = "None" THEN unit ELSE u
    IN  IF uu \notin SupportedUnits THEN Raise("UnsupportedUnit")
        ELSE IF res = None THEN Raise("NoResult")
        ELSE Ok(Convert(Val(res), uu))

\* Timer.get on a timer whose result field is res
get(res, u) ==
    IF res = None THEN Raise("NoResult")
    ELSE LET uu == IF u = "None" THEN unit ELSE u
         IN  IF uu \in SupportedUnits THEN Ok(Convert(Val(res), uu))
             ELSE Raise("UnsupportedUnit")

\* _get_and_callback, calling self.callback whatever callable it is given
get_and_callbackConfiguredOnly(st, res, u, cbarg) ==
    LET r == get(res, u)
        cb == IF cbarg = "False" THEN "False" ELSE callback
    IN  IF r.kind = "raise" \/ cb \in {"None", "False"}
        THEN [ret |-> r, calls |-> <<>>]
        ELSE [ret |-> IF cb = "cbRaise" THEN Raise("CallbackError") ELSE r,
              calls |-> <<[cb |-> cb, arg |-> r.val, starttime |-> st, result |-> res]>>]

\* Timer._get_and_callback, called with the fields already updated to st, res
get_and_callback(st, res, u, cbarg) ==
    LET r == get(res, u)
        cb == IF cbarg = "True" THEN callback ELSE cbarg
    IN  IF r.kind = "raise" \/ cb \in {"None", "False"}
        THEN [ret |-> r, calls |-> <<>>]
        ELSE [ret |-> IF cb = "cbRaise" THEN Raise("CallbackError") ELSE r,
              calls |-> <<[cb |-> cb, arg |-> r.val, starttime |-> st, result |-> res]>>]

\* the arguments of a call; a method without the parameter has its default
Args(replace, clear, u, cbarg) ==
    [replace |-> replace, clear |-> clear, unit |-> u, callback |-> cbarg]

\* no user code ran in the call
NoBody == [exc |-> "-", pure |-> TRUE]
\* the user code ended by returning (exc = "None") or by raising exc; pure:
\* it called no method of the timer
Body(exc, pure) == [exc |-> exc, pure |-> pure]

\* a method's effect: the fields after it, what it returns or raises, the
\* callbacks it invoked
Effect(st, res, r, cs) == [starttime |-> st, result |-> res, ret |-> r, calls |-> cs]

\* start, without the check of a running timer
startNoGuard(st, res, t, replace, clear) ==
    Effect(Some(t), IF clear THEN None ELSE res, Ok(NoneVal), <<>>)

\* start, keeping the start time of a running timer it is told to replace
startKeepsOldStart(st, res, t, replace, clear) ==
    IF st # None /\ ~replace
    THEN Effect(st, res, Raise("AlreadyRunning"), <<>>)
    ELSE Effect(IF st = None THEN Some(t) ELSE st,
                IF clear THEN None ELSE res, Ok(NoneVal), <<>>)

\* start, clearing the result before the check of the running timer
startClearFirst(st, res, t, replace, clear) ==
    IF st # None /\ ~replace
    THEN Effect(st, IF clear THEN None ELSE res, Raise("AlreadyRunning"), <<>>)
    ELSE Effect(Some(t), IF clear THEN None ELSE res, Ok(NoneVal), <<>>)

\* Timer.start at clock reading t
start(st, res, t, replace, clear) ==
    IF st # None /\ ~replace
    THEN Effect(st, res, Raise("AlreadyRunning"), <<>>)
    ELSE Effect(Some(t), IF clear THEN None ELSE res, Ok(NoneVal), <<>>)

\* current, beginning a new lap: the elapsed time is counted from now on
currentLap(st, res, t, u, cbarg) ==
    IF st = None
    THEN Effect(st, res, Raise("NotRunning"), <<>>)
    ELSE LET nr == Some(t - Val(st))
             gc == get_and_callback(Some(t), nr, u, cbarg)
         IN  Effect(Some(t), nr, gc.ret, gc.calls)

\* Timer.current at clock reading t
current(st, res, t, u, cbarg) ==
    IF st = None
    THEN Effect(st, res, Raise("NotRunning"), <<>>)
    ELSE LET nr == Some(t - Val(st))
             gc == get_and_callback(st, nr, u, cbarg)
         IN  Effect(st, nr, gc.ret, gc.calls)

\* stop, not clearing starttime
stopKeepsRunning(st, res, t, u, cbarg) ==
    IF st = None
    THEN Effect(st, res, Raise("NotRunning"), <<>>)
    ELSE LET nr == Some(t - Val(st))
             gc == get_and_callback(st, nr, u, cbarg)
         IN  Effect(st, nr, gc.ret, gc.calls)

\* stop, invoking the callback before it clears starttime
stopCallbackBeforeClear(st, res, t, u, cbarg) ==
    IF st = None
    THEN Effect(st, res, Raise("NotRunning"), <<>>)
    ELSE LET nr == Some(t - Val(st))
             gc == get_and_callback(st, nr, u, cbarg)
         IN  Effect(None, nr, gc.ret, gc.calls)

\* stop, checking the unit before it changes the timer
stopValidatesFirst(st, res, t, u, cbarg) ==
    IF st = None
    THEN Effect(st, res, Raise("NotRunning"), <<>>)
    ELSE IF (IF u = "None" THEN unit ELSE u) \notin SupportedUnits
    THEN Effect(st, res, Raise("UnsupportedUnit"), <<>>)
    ELSE LET nr == Some(t - Val(st))
             gc == get_and_callback(None, nr, u, cbarg)
         IN  Effect(None, nr, gc.ret, gc.calls)

\* Timer.stop at clock reading t
stop(st, res, t, u, cbarg) ==
    IF st = None
    THEN Effect(st, res, Raise("NotRunning"), <<>>)
    ELSE LET nr == Some(t - Val(st))
             gc == get_and_callback(None, nr, u, cbarg)
         IN  Effect(None, nr, gc.ret, gc.calls)

\* restart, not passing clear on to start
restartIgnoresClear(st, res, t, t2, clear, u, cbarg) ==
    LET s == stop(st, res, t, u, cbarg)
    IN  IF s.ret.kind = "raise" THEN s
        ELSE LET b == start(s.starttime, s.result, t2, FALSE, TRUE)
             IN  IF b.ret.kind = "raise" THEN Effect(b.starttime, b.result, b.ret, s.calls)
                 ELSE Effect(b.starttime, b.result, s.ret, s.calls)

\* restart, starting the fresh run even though stop raised (try/finally)
restartAlwaysStarts(st, res, t, t2, clear, u, cbarg) ==
    LET s == stop(st, res, t, u, cbarg)
        b == start(s.starttime, s.result, t2, FALSE, clear)
    IN  IF s.ret.kind = "raise" THEN Effect(b.starttime, b.result, s.ret, s.calls)
        ELSE Effect(b.starttime, b.result, s.ret, s.calls)

\* Timer.restart: stop at reading t, then start at reading t2
restart(st, res, t, t2, clear, u, cbarg) ==
    LET s == stop(st, res, t, u, cbarg)
    IN  IF s.ret.kind = "raise" THEN s
        ELSE LET b == start(s.starttime, s.result, t2, FALSE, clear)
             IN  IF b.ret.kind = "raise" THEN Effect(b.starttime, b.result, b.ret, s.calls)
                 ELSE Effect(b.starttime, b.result, s.ret, s.calls)

\* measure, returning what stop returns instead of what fn returned
measureReturnsElapsed(st, res, t, u, cbarg, exc) ==
    IF exc # "None"
    THEN LET s == stop(st, res, t, "None", "False")
         IN  IF s.ret.kind = "raise" THEN s
             ELSE Effect(s.starttime, s.result, Raise(exc), s.calls)
    ELSE stop(st, res, t, u, cbarg)

\* measure, passing its unit and callback to the stop of the except branch
measureStopWithArgs(st, res, t, u, cbarg, exc) ==
    LET s == stop(st, res, t, u, cbarg)
    IN  IF s.ret.kind = "raise" THEN s
        ELSE IF exc # "None" THEN Effect(s.starttime, s.result, Raise(exc), s.calls)
        ELSE Effect(s.starttime, s.result, Ok(FnRet), s.calls)

\* Timer.measure from the return (exc = "None") or the raise (of exc) of fn,
\* at clock reading t; unit and callback are first read here
measure(st, res, t, u, cbarg, exc) ==
    IF exc # "None"
    THEN LET s == stop(st, res, t, "None", "False")
         IN  IF s.ret.kind = "raise" THEN s
             ELSE Effect(s.starttime, s.result, Raise(exc), s.calls)
    ELSE LET s == stop(st, res, t, u, cbarg)
         IN  IF s.ret.kind = "raise" THEN s
             ELSE Effect(s.starttime, s.result, Ok(FnRet), s.calls)

\* Timer.__exit__ at clock reading t, and what the with statement does with
\* its return value: exc is "None" if the body completed, else what it raised
exit(st, res, t, exc) ==
    LET cbarg == IF exc # "None" THEN "False" ELSE "True"
        s == stop(st, res, t, "None", cbarg)
    IN  IF s.ret.kind = "raise" THEN s
        ELSE IF exc # "None" THEN Effect(s.starttime, s.result, Raise(exc), s.calls)
        ELSE Effect(s.starttime, s.result, Ok(NoneVal), s.calls)

\* Timer.measure of the single-file module timing.py, from the return or
\* the raise of fn: start(), ret = fn(), stop(unit, callback), return ret,
\* with no try statement around fn()
measureSingleFile(st, res, t, u, cbarg, exc) ==
    IF exc # "None"
    THEN Effect(st, res, Raise(exc), <<>>)
    ELSE LET s == stop(st, res, t, u, cbarg)
         IN  IF s.ret.kind = "raise" THEN s
             ELSE Effect(s.starttime, s.result, Ok(FnRet), s.calls)

\* ------------------------------------------------------------ Timer.wrap
\* the value wrap and a decorator return: a callable
CallableVal == [type |-> "callable", n |-> 0, div |-> 1]
\* the keyword arguments given to wrap, passed on to measure; a unit or a
\* callback that is not given is measure's default, None or True
WrapKwargs ==
    {[unit |-> "None", callback |-> "True"],
     [unit |-> "milliseconds", callback |-> "cb2"],
     [unit |-> "hours", callback |-> "False"]}
\* a closure over fn and kwargs: kind "timed" is the zero-argument callable,
\* kind "decorator" the function that takes fn; form tells which branch of
\* wrap made it
Closure(kind, form, kw) ==
    [kind |-> kind, form |-> form, unit |-> kw.unit, callback |-> kw.callback]
\* what wrap returns: timed for wrap(fn, **kwargs), decorator for wrap(**kwargs)
wrap(form, kw) ==
    IF form = "call" THEN Closure("timed", "call", kw)
    ELSE Closure("decorator", "decorator", kw)
\* what the decorator d returns for fn
decorator(d) ==
    Closure("timed", "decorator", [unit |-> d.unit, callback |-> d.callback])

\* timed, calling measure(fn) without the keyword arguments of wrap
timedNoKwargs(w, st, res, t, exc) ==
    IF w.form = "call"
    THEN measure(st, res, t, w.unit, w.callback, exc)
    ELSE measure(st, res, t, "None", "True", exc)

\* timed() from the return or raise of fn: self.measure(fn, **kwargs), in
\* the timed of wrap (lines 183-185) and in the timed of decorator (189-190)
timed(w, st, res, t, exc) ==
    IF w.form = "call"
    THEN measure(st, res, t, w.unit, w.callback, exc)
    ELSE measure(st, res, t, w.unit, w.callback, exc)

\* ----------------------------------------------------------------- state
\* the Timer of the single-file module after its constructor: its fields,
\* and what the last call on it returned or raised and the callbacks of it
SingleNew == [starttime |-> None, result |-> None, ret |-> Ok(NoneVal), calls |-> <<>>]
\* a thread that has not called start() yet
ThreadReady == [pc |-> "ready", clear |-> TRUE, ret |-> Ok(NoneVal)]

Init ==
    /\ now \in Clock
    /\ starttime = None
    /\ result = None
    /\ unit \in DefaultUnits
    /\ callback \in Callbacks
    /\ stack = <<>>
    /\ op = "init"
    /\ ret = Ok(NoneVal)
    /\ calls = <<>>
    /\ body = NoBody
    /\ args = Args(FALSE, TRUE, "None", "True")
    /\ was_running = FALSE
    /\ wrapped = {}
    /\ prevtimer = None
    /\ timers = <<>>
    /\ threads = [t \in Threads |-> ThreadReady]
    /\ single = SingleNew

\* the fields and the observations after the method `name` had effect e
Apply(name, a, e, b) ==
    /\ starttime' = e.starttime
    /\ result' = e.result
    /\ ret' = e.ret
    /\ calls' = e.calls
    /\ op' = name
    /\ args' = a
    /\ was_running' = (starttime # None)
    /\ body' = b
    /\ UNCHANGED <<now, unit, callback>>
    /\ UNCHANGED <<prevtimer, timers, threads, single>>

\* time passes
Tick ==
    /\ now < MaxClock
    /\ now' = now + 1
    /\ UNCHANGED <<starttime, result, unit, callback, stack,
                   op, args, was_running, ret, calls, body>>
    /\ UNCHANGED aux

\* time.time_ns() is the system's wall clock: it can be set back
ClockSetBack ==
    /\ \E t \in Clock : t < now /\ now' = t
    /\ UNCHANGED <<starttime, result, unit, callback, stack,
                   op, args, was_running, ret, calls, body>>
    /\ UNCHANGED aux

Start(replace, clear) ==
    /\ LET e == start(starttime, result, now, replace, clear)
       IN  Apply("start", Args(replace, clear, "None", "True"), e, NoBody)
    /\ UNCHANGED <<stack, wrapped>>

Current(u, cbarg) ==
    /\ LET e == current(starttime, result, now, u, cbarg)
       IN  Apply("current", Args(FALSE, TRUE, u, cbarg), e, NoBody)
    /\ UNCHANGED <<stack, wrapped>>

Stop(u, cbarg) ==
    /\ LET e == stop(starttime, result, now, u, cbarg)
       IN  Apply("stop", Args(FALSE, TRUE, u, cbarg), e, NoBody)
    /\ UNCHANGED <<stack, wrapped>>

\* get, consuming the result it returns
GetConsumes(u) ==
    /\ LET e == Effect(starttime, None, get(result, u), <<>>)
       IN  Apply("get", Args(FALSE, TRUE, u, "True"), e, NoBody)
    /\ UNCHANGED <<stack, wrapped>>

Get(u) ==
    /\ LET e == Effect(starttime, result, get(result, u), <<>>)
       IN  Apply("get", Args(FALSE, TRUE, u, "True"), e, NoBody)
    /\ UNCHANGED <<stack, wrapped>>

\* restart reads the clock twice, the callback runs between the two reads
Restart(clear, u, cbarg) ==
    /\ \E t2 \in {now, now + 1} \cap Clock :
        /\ now' = t2
        /\ LET e == restart(starttime, result, now, t2, clear, u, cbarg)
           IN  /\ starttime' = e.starttime
               /\ result' = e.result
               /\ ret' = e.ret
               /\ calls' = e.calls
    /\ op' = "restart"
    /\ args' = Args(FALSE, clear, u, cbarg)
    /\ was_running' = (starttime # None)
    /\ body' = NoBody
    /\ UNCHANGED <<unit, callback, stack>>
    /\ UNCHANGED aux

\* measure up to the call of fn (lines 168-170): start(), then fn runs
MeasureBegin ==
    /\ LET e == start(starttime, result, now, FALSE, TRUE)
       IN  /\ e.ret.kind = "ok" => Len(stack) < MaxDepth
           /\ Apply(IF e.ret.kind = "raise" THEN "measure" ELSE "measure_fn",
                    Args(FALSE, TRUE, "None", "True"), e, NoBody)
           /\ stack' = IF e.ret.kind = "raise" THEN stack ELSE Append(stack, "measure")
    /\ UNCHANGED wrapped

\* measure from the return or raise of fn (lines 171-176)
MeasureEnd(u, cbarg, exc) ==
    /\ stack # <<>>
    /\ stack[Len(stack)] = "measure"
    /\ LET e == measure(starttime, result, now, u, cbarg, exc)
       IN  Apply("measure", Args(FALSE, TRUE, u, cbarg), e, Body(exc, op = "measure_fn"))
    /\ stack' = SubSeq(stack, 1, Len(stack) - 1)
    /\ UNCHANGED wrapped

\* the with statement up to its body: __enter__
Enter ==
    /\ LET e == start(starttime, result, now, FALSE, TRUE)
       IN  /\ e.ret.kind = "ok" => Len(stack) < MaxDepth
           /\ Apply(IF e.ret.kind = "raise" THEN "with" ELSE "with_body",
                    Args(FALSE, TRUE, "None", "True"), e, NoBody)
           /\ stack' = IF e.ret.kind = "raise" THEN stack ELSE Append(stack, "with")
    /\ UNCHANGED wrapped

\* the with statement from the end of its body: __exit__
Exit(exc) ==
    /\ stack # <<>>
    /\ stack[Len(stack)] = "with"
    /\ LET e == exit(starttime, result, now, exc)
       IN  Apply("with", Args(FALSE, TRUE, "None", "True"), e, Body(exc, op = "with_body"))
    /\ stack' = SubSeq(stack, 1, Len(stack) - 1)
    /\ UNCHANGED wrapped

\* wrap(fn, **kwargs) for form "call", wrap(**kwargs) for form "decorator"
Wrap(form, kw) ==
    /\ Cardinality(wrapped \cup {wrap(form, kw)}) <= MaxWrapped
    /\ wrapped' = wrapped \cup {wrap(form, kw)}
    /\ Apply("wrap", Args(FALSE, TRUE, kw.unit, kw.callback),
             Effect(starttime, result, Ok(CallableVal), <<>>), NoBody)
    /\ UNCHANGED stack

\* a decorator that wrap(**kwargs) returned, applied to fn
Decorate(d) ==
    /\ d \in wrapped /\ d.kind = "decorator"
    /\ Cardinality(wrapped \cup {decorator(d)}) <= MaxWrapped
    /\ wrapped' = wrapped \cup {decorator(d)}
    /\ Apply("decorator", Args(FALSE, TRUE, d.unit, d.callback),
             Effect(starttime, result, Ok(CallableVal), <<>>), NoBody)
    /\ UNCHANGED stack

\* a timed callable called, up to the call of fn inside measure
TimedBegin(w) ==
    /\ w \in wrapped /\ w.kind = "timed"
    /\ LET e == start(starttime, result, now, FALSE, TRUE)
       IN  /\ e.ret.kind = "ok" => Len(stack) < MaxDepth
           /\ Apply(IF e.ret.kind = "raise" THEN "timed" ELSE "timed_fn",
                    Args(FALSE, TRUE, w.unit, w.callback), e, NoBody)
           /\ stack' = IF e.ret.kind = "raise" THEN stack ELSE Append(stack, w)
    /\ UNCHANGED wrapped

\* the timed callable in progress, from the return or raise of fn
TimedEnd(exc) ==
    /\ stack # <<>>
    /\ LET w == stack[Len(stack)]
           e == timed(w, starttime, result, now, exc)
       IN  Apply("timed", Args(FALSE, TRUE, w.unit, w.callback), e,
                 Body(exc, op = "timed_fn"))
    /\ stack' = SubSeq(stack, 1, Len(stack) - 1)
    /\ UNCHANGED wrapped

Next ==
    \/ Tick
    \/ ClockSetBack
    \/ \E replace \in BOOLEAN, clear \in BOOLEAN : Start(replace, clear)
    \/ \E u \in CallUnits, cbarg \in CallbackArgs : Current(u, cbarg)
    \/ \E u \in CallUnits, cbarg \in CallbackArgs : Stop(u, cbarg)
    \/ \E u \in UnitArgs : Get(u)
    \/ \E clear \in BOOLEAN, u \in CallUnits, cbarg \in CallbackArgs : Restart(clear, u, cbarg)
    \/ MeasureBegin
    \/ \E u \in CallUnits, cbarg \in CallbackArgs, exc \in {"None"} \cup BodyErrors :
          MeasureEnd(u, cbarg, exc)
    \/ Enter
    \/ \E exc \in {"None"} \cup BodyErrors : Exit(exc)

Spec == Init /\ [][Next]_vars

\* -------------------------------------------- the functions of the module
\* timing.start, timing.measure and timing.wrap construct a Timer each, all
\* with the constructor arguments unit and callback; timers[i] holds the
\* fields starttime and result of the i-th timer constructed.
TimerVal(i) == [type |-> "timer", n |-> i, div |-> 1]
Fields(e) == [starttime |-> e.starttime, result |-> e.result]
\* Timer(...): a new timer
NewTimer == [starttime |-> None, result |-> None]

\* the observations after the module function or callable `name`, which
\* called a method of effect e on a timer that was running or not
ModuleApply(name, e, b, running) ==
    /\ op' = name
    /\ args' = Args(FALSE, TRUE, "None", "True")
    /\ was_running' = running
    /\ ret' = e.ret
    /\ calls' = e.calls
    /\ body' = b
    /\ UNCHANGED <<now, starttime, result, unit, callback, threads, single>>

\* timing.start(): construct, set prevtimer, start, return the timer
ModuleStart ==
    /\ Len(timers) < MaxTimers
    /\ LET i == Len(timers) + 1
           e == start(NewTimer.starttime, NewTimer.result, now, FALSE, TRUE)
       IN  /\ timers' = Append(timers, Fields(e))
           /\ prevtimer' = Some(i)
           /\ ModuleApply("timing.start",
                          Effect(e.starttime, e.result, Ok(TimerVal(i)), e.calls),
                          NoBody, FALSE)
    /\ UNCHANGED <<stack, wrapped>>

\* timing.measure(fn) up to the call of fn: construct, set prevtimer,
\* timer.measure(fn) as far as start()
ModuleMeasureBegin ==
    /\ Len(timers) < MaxTimers
    /\ Len(stack) < MaxDepth
    /\ LET i == Len(timers) + 1
           e == start(NewTimer.starttime, NewTimer.result, now, FALSE, TRUE)
       IN  /\ timers' = Append(timers, Fields(e))
           /\ prevtimer' = Some(i)
           /\ stack' = Append(stack, [timer |-> i, via |-> "measure"])
           /\ ModuleApply("timing.measure_fn", e, NoBody, FALSE)
    /\ UNCHANGED wrapped

\* timing.measure(fn) from the return or raise of fn: the rest of
\* timer.measure(fn), which has no unit or callback argument
ModuleMeasureEnd(exc) ==
    /\ stack # <<>>
    /\ stack[Len(stack)].via = "measure"
    /\ LET i == stack[Len(stack)].timer
           e == measure(timers[i].starttime, timers[i].result, now, "None", "True", exc)
       IN  /\ timers' = [timers EXCEPT ![i] = Fields(e)]
           /\ ModuleApply("timing.measure", e, Body(exc, op = "timing.measure_fn"),
                          timers[i].starttime # None)
    /\ stack' = SubSeq(stack, 1, Len(stack) - 1)
    /\ UNCHANGED <<prevtimer, wrapped>>

\* timing.wrap, never setting prevtimer
ModuleWrapNoSlot(form) ==
    /\ Len(timers) < MaxTimers
    /\ LET i == Len(timers) + 1
           c == [kind |-> IF form = "call" THEN "timed" ELSE "decorator",
                 form |-> form, timer |-> i]
       IN  /\ Cardinality(wrapped \cup {c}) <= MaxWrapped
           /\ timers' = Append(timers, NewTimer)
           /\ wrapped' = wrapped \cup {c}
           /\ ModuleApply("timing.wrap",
                          Effect(None, None, Ok(CallableVal), <<>>), NoBody, FALSE)
    /\ UNCHANGED <<stack, prevtimer>>

\* timing.wrap(fn, **kwargs) for form "call", timing.wrap(**kwargs) for form
\* "decorator": construct, set prevtimer, return timed or decorator
ModuleWrap(form) ==
    /\ Len(timers) < MaxTimers
    /\ LET i == Len(timers) + 1
           c == [kind |-> IF form = "call" THEN "timed" ELSE "decorator",
                 form |-> form, timer |-> i]
       IN  /\ Cardinality(wrapped \cup {c}) <= MaxWrapped
           /\ timers' = Append(timers, NewTimer)
           /\ prevtimer' = Some(i)
           /\ wrapped' = wrapped \cup {c}
           /\ ModuleApply("timing.wrap",
                          Effect(None, None, Ok(CallableVal), <<>>), NoBody, FALSE)
    /\ UNCHANGED stack

\* a decorator that timing.wrap(**kwargs) returned, applied to fn
ModuleDecorate(d) ==
    /\ d \in wrapped /\ d.kind = "decorator"
    /\ LET c == [kind |-> "timed", form |-> "decorator", timer |-> d.timer]
       IN  /\ Cardinality(wrapped \cup {c}) <= MaxWrapped
           /\ wrapped' = wrapped \cup {c}
    /\ ModuleApply("timing.decorator",
                   Effect(None, None, Ok(CallableVal), <<>>), NoBody,
                   timers[d.timer].starttime # None)
    /\ UNCHANGED <<stack, prevtimer, timers>>

\* a timed callable of timing.wrap called, up to the call of fn
ModuleTimedBegin(w) ==
    /\ w \in wrapped /\ w.kind = "timed"
    /\ LET i == w.timer
           e == start(timers[i].starttime, timers[i].result, now, FALSE, TRUE)
       IN  /\ e.ret.kind = "ok" => Len(stack) < MaxDepth
           /\ timers' = [timers EXCEPT ![i] = Fields(e)]
           /\ stack' = IF e.ret.kind = "raise" THEN stack
                       ELSE Append(stack, [timer |-> i, via |-> "timed"])
           /\ ModuleApply(IF e.ret.kind = "raise" THEN "timing.timed" ELSE "timing.timed_fn",
                          e, NoBody, timers[i].starttime # None)
    /\ UNCHANGED <<prevtimer, wrapped>>

\* the timed callable with a measure that lets the error of fn pass without
\* stopping the timer
ModuleTimedEndNoCleanup(exc) ==
    /\ stack # <<>>
    /\ stack[Len(stack)].via = "timed"
    /\ LET i == stack[Len(stack)].timer
           e == IF exc # "None"
                THEN Effect(timers[i].starttime, timers[i].result, Raise(exc), <<>>)
                ELSE measure(timers[i].starttime, timers[i].result, now, "None", "True", exc)
       IN  /\ timers' = [timers EXCEPT ![i] = Fields(e)]
           /\ ModuleApply("timing.timed", e, Body(exc, op = "timing.timed_fn"),
                          timers[i].starttime # None)
    /\ stack' = SubSeq(stack, 1, Len(stack) - 1)
    /\ UNCHANGED <<prevtimer, wrapped>>

\* what fn raises when it lets the failure of a timed callable it has just
\* called propagate
InnerFailure == IF op = "timing.timed" /\ ret.kind = "raise" THEN {ret.exc} ELSE {}

\* the timed callable in progress, from the return or raise of fn
ModuleTimedEnd(exc) ==
    /\ stack # <<>>
    /\ stack[Len(stack)].via = "timed"
    /\ LET i == stack[Len(stack)].timer
           e == measure(timers[i].starttime, timers[i].result, now, "None", "True", exc)
       IN  /\ timers' = [timers EXCEPT ![i] = Fields(e)]
           /\ ModuleApply("timing.timed", e, Body(exc, op = "timing.timed_fn"),
                          timers[i].starttime # None)
    /\ stack' = SubSeq(stack, 1, Len(stack) - 1)
    /\ UNCHANGED <<prevtimer, wrapped>>

\* stop(callback=False) on a timer the module constructed
ModuleTimerStop(i) ==
    /\ i \in 1..Len(timers)
    /\ LET e == stop(timers[i].starttime, timers[i].result, now, "None", "False")
       IN  /\ timers' = [timers EXCEPT ![i] = Fields(e)]
           /\ ModuleApply("timer.stop", e, NoBody, timers[i].starttime # None)
    /\ UNCHANGED <<stack, prevtimer, wrapped>>

NextModule ==
    \/ Tick
    \/ ModuleStart
    \/ ModuleMeasureBegin
    \/ \E exc \in {"None"} \cup BodyErrors : ModuleMeasureEnd(exc)
    \/ \E form \in {"call", "decorator"} : ModuleWrap(form)
    \/ \E d \in wrapped : ModuleDecorate(d)
    \/ \E w \in wrapped : ModuleTimedBegin(w)
    \/ \E exc \in {"None"} \cup BodyErrors \cup InnerFailure : ModuleTimedEnd(exc)
    \/ \E i \in 1..Len(timers) : ModuleTimerStop(i)

SpecModule == Init /\ [][NextModule]_vars

\* ------------------------------------------- start() called from threads
\* Two threads call start(replace=False, clear) on the one timer. A thread
\* switch can fall between any two statements of the method, so each thread
\* runs start in its steps: the test of line 46, the assignment of line 48,
\* the clearing of lines 49-50. threads[t].ret is what the call of t
\* returned or raised once its pc is "done".
SetThread(t, pc, r) == [threads EXCEPT ![t] = [pc |-> pc, clear |-> threads[t].clear, ret |-> r]]

ThreadCall(t, clear) ==
    /\ threads[t].pc = "ready"
    /\ threads' = [threads EXCEPT ![t] = [pc |-> "check", clear |-> clear, ret |-> Ok(NoneVal)]]
    /\ UNCHANGED <<now, starttime, result, unit, callback, stack,
                   op, args, was_running, ret, calls, body,
                   wrapped, prevtimer, timers, single>>

\* the test and the assignment in one step, as under a lock
ThreadCheckAndSet(t) ==
    /\ threads[t].pc = "check"
    /\ IF starttime # None
       THEN /\ threads' = SetThread(t, "done", Raise("AlreadyRunning"))
            /\ UNCHANGED starttime
       ELSE /\ threads' = SetThread(t, IF threads[t].clear THEN "clear" ELSE "done", Ok(NoneVal))
            /\ starttime' = Some(now)
    /\ UNCHANGED <<now, result, unit, callback, stack,
                   op, args, was_running, ret, calls, body,
                   wrapped, prevtimer, timers, single>>

\* if self.starttime is not None and not replace: raise TimerStateError
ThreadCheck(t) ==
    /\ threads[t].pc = "check"
    /\ threads' = IF starttime # None
                  THEN SetThread(t, "done", Raise("AlreadyRunning"))
                  ELSE SetThread(t, "assign", Ok(NoneVal))
    /\ UNCHANGED <<now, starttime, result, unit, callback, stack,
                   op, args, was_running, ret, calls, body,
                   wrapped, prevtimer, timers, single>>

\* self.starttime = time.time_ns()
ThreadAssign(t) ==
    /\ threads[t].pc = "assign"
    /\ starttime' = Some(now)
    /\ threads' = SetThread(t, IF threads[t].clear THEN "clear" ELSE "done", Ok(NoneVal))
    /\ UNCHANGED <<now, result, unit, callback, stack,
                   op, args, was_running, ret, calls, body,
                   wrapped, prevtimer, timers, single>>

\* if clear: self.result = None
ThreadClear(t) ==
    /\ threads[t].pc = "clear"
    /\ result' = None
    /\ threads' = SetThread(t, "done", Ok(NoneVal))
    /\ UNCHANGED <<now, starttime, unit, callback, stack,
                   op, args, was_running, ret, calls, body,
                   wrapped, prevtimer, timers, single>>

NextThreads ==
    \/ Tick
    \/ \E t \in Threads, clear \in BOOLEAN : ThreadCall(t, clear)
    \/ \E t \in Threads : ThreadCheck(t)
    \/ \E t \in Threads : ThreadAssign(t)
    \/ \E t \in Threads : ThreadClear(t)

SpecThreads == Init /\ [][NextThreads]_vars

\* the timer used through wrap: wrap in both forms and the callables it
\* returns, with start and stop to wrap and call in every state of the timer
NextWrap ==
    \/ Tick
    \/ Start(FALSE, TRUE)
    \/ Stop("None", "False")
    \/ \E form \in {"call", "decorator"}, kw \in WrapKwargs : Wrap(form, kw)
    \/ \E d \in wrapped : Decorate(d)
    \/ \E w \in wrapped : TimedBegin(w)
    \/ \E exc \in {"None"} \cup BodyErrors : TimedEnd(exc)

SpecWrap == Init /\ [][NextWrap]_vars

TypeOK ==
    /\ now \in Clock
    /\ starttime \in {None} \cup {Some(t) : t \in Clock}
    /\ result \in {None} \cup {Some(d) : d \in -MaxClock..MaxClock}
    /\ unit \in Units
    /\ callback \in Callbacks

\* ------------------------------------------------------------------ claims

\* the last call was a measure whose fn raised, or a with statement whose
\* body raised, after the start had succeeded
FnRaised(name) == op = name /\ body.exc \in BodyErrors
\* the same, and fn or the body called no method of the timer
FnRaisedPure(name) == FnRaised(name) /\ body.pure

\* C1: measure(fn) on an idle timer with a supported default unit, fn raising
\* without calling the timer: the timer ends idle, no callback is invoked
\* (neither the configured one nor the one given to measure), and the caller
\* gets the error fn raised.
C1_MeasureFailure ==
    (FnRaisedPure("measure") /\ unit \in SupportedUnits) =>
        /\ starttime = None
        /\ calls = <<>>
        /\ ret = Raise(body.exc)

\* a timer with a callback, measure(fn, unit="hours", callback=cb2), fn raised
C1_Witness ==
    /\ FnRaisedPure("measure")
    /\ unit = "seconds" /\ callback = "cb1"
    /\ args.unit = "hours" /\ args.callback = "cb2"
    /\ starttime = None /\ ret = Raise("FnError")

\* C2: a with statement entered on an idle timer, its body not calling the
\* timer: the timer ends idle on every exit path; the configured callback is
\* invoked exactly once, with the elapsed value in the default unit, if the
\* body completed, and not at all if it raised; an error raised by the body
\* reaches the caller.
C2_ScopedExit ==
    (op = "with" /\ body.exc # "-" /\ body.pure) =>
        /\ starttime = None
        /\ (body.exc = "None" /\ callback # "None") =>
              /\ Len(calls) = 1
              /\ calls[1].cb = callback
              /\ result # None
              /\ calls[1].arg = Convert(Val(result), unit)
        /\ body.exc \in BodyErrors => (calls = <<>> /\ ret = Raise(body.exc))

\* C3: whatever the measured callable or the with body did with the timer
\* before it raised, and whatever default unit the timer has, the caller gets
\* the error that was raised, and the timer ends idle.
C3_OriginalFailure ==
    (FnRaised("measure") \/ FnRaised("with")) =>
        /\ ret = Raise(body.exc)
        /\ starttime = None

\* C4: on an idle timer current, stop and restart raise the TimerStateError
\* of a timer that is not running, change neither starttime nor result, and
\* invoke no callback.
C4_IdleOpsFail ==
    /\ (op \in {"current", "stop", "restart"} /\ ~was_running) =>
          /\ ret = Raise("NotRunning")
          /\ ret.exc \in TimerStateErrors
          /\ calls = <<>>
          /\ starttime = None
    /\ starttime = None =>
          \A u \in UnitArgs, cbarg \in CallbackArgs :
              LET unchanged == Effect(starttime, result, Raise("NotRunning"), <<>>)
              IN  /\ current(starttime, result, now, u, cbarg) = unchanged
                  /\ stop(starttime, result, now, u, cbarg) = unchanged
                  /\ \A clear \in BOOLEAN, t2 \in Clock :
                        restart(starttime, result, now, t2, clear, u, cbarg) = unchanged

\* restart raised on a timer that had been stopped before
C4_Witness ==
    /\ op = "restart" /\ ~was_running
    /\ ret = Raise("NotRunning")
    /\ starttime = None /\ result # None

\* C5: start(replace=False) on a running timer raises the TimerStateError of
\* a running timer and changes neither starttime nor result, whatever clear
\* is; start on an idle timer succeeds and makes it running.
C5_StartGuard ==
    /\ (op = "start" /\ was_running /\ ~args.replace) =>
          (ret = Raise("AlreadyRunning") /\ ret.exc \in TimerStateErrors /\ starttime # None)
    /\ (op = "start" /\ ~was_running) => (ret.kind = "ok" /\ starttime # None)
    /\ starttime # None =>
          \A clear \in BOOLEAN :
              start(starttime, result, now, FALSE, clear)
                  = Effect(starttime, result, Raise("AlreadyRunning"), <<>>)
    /\ starttime = None =>
          \A replace \in BOOLEAN, clear \in BOOLEAN :
              LET e == start(starttime, result, now, replace, clear)
              IN  e.ret.kind = "ok" /\ e.starttime = Some(now)

\* start(clear=True) raised on a running timer that holds a result
C5_Witness ==
    /\ op = "start" /\ was_running /\ ~args.replace /\ args.clear
    /\ ret = Raise("AlreadyRunning")
    /\ starttime # None /\ result # None

\* the unit a call converts to: its unit argument, or self.unit for None
EffectiveUnit(u) == IF u = "None" THEN unit ELSE u
\* the calls that start the timer, and the calls that compute a result
StartOps == {"start", "restart", "measure_fn", "with_body"}
StopOps == {"current", "stop", "restart", "measure", "with"}

\* C6 as stated: get raises the TimerStateError of a missing result exactly
\* when no result is stored, and succeeds whenever a result is stored, whether
\* the timer is idle or running.
C6_GetSucceedsIffResult ==
    /\ op = "get" =>
          /\ (ret = Raise("NoResult")) <=> (result = None)
          /\ result # None => ret.kind = "ok"
    /\ \A u \in UnitArgs :
          /\ (get(result, u) = Raise("NoResult")) <=> (result = None)
          /\ result # None => get(result, u).kind = "ok"

\* what get returns in a state, for every unit argument, and the result a
\* current or stop on a running timer stores, even when it raises
C6_GetState ==
    /\ op = "get" =>
          /\ ret = get(result, args.unit)
          /\ (ret = Raise("NoResult")) <=> (result = None)
    /\ \A u \in UnitArgs :
          LET r == get(result, u)
          IN  /\ (r = Raise("NoResult")) <=> (result = None)
              /\ r.exc = "NoResult" => r.exc \in TimerStateErrors
              /\ result = None => r.kind = "raise"
              /\ (result # None /\ EffectiveUnit(u) \in SupportedUnits) =>
                    r = Ok(Convert(Val(result), EffectiveUnit(u)))
              /\ (result # None /\ EffectiveUnit(u) \notin SupportedUnits) =>
                    r = Raise("UnsupportedUnit")
    /\ starttime # None =>
          \A u \in UnitArgs, cbarg \in CallbackArgs :
              /\ current(starttime, result, now, u, cbarg).result # None
              /\ stop(starttime, result, now, u, cbarg).result # None

\* how a result comes to be stored and to be absent
C6_ResultStep ==
    /\ (result = None /\ result' # None) => (op' \in StopOps /\ was_running')
    /\ (result # None /\ result' = None) =>
          (op' \in StartOps /\ args'.clear /\ starttime' # None)

\* C6, amended: get raises the TimerStateError of a missing result exactly
\* when no result is stored; a result comes to be stored only by a current
\* or stop (also the one of restart, measure and with) on a running timer,
\* whether that call then succeeds or raises, and comes to be absent only by a
\* successful start with clear=True; get never returns a zero or a default
\* for an absent result; with a result stored, idle or running, get succeeds
\* for a supported unit and raises ValueError for an unsupported one.
C6_GetAmended == []C6_GetState /\ [][C6_ResultStep]_vars

\* get() raised for a missing result on a running timer
C6_Witness ==
    /\ op = "get" /\ ret = Raise("NoResult")
    /\ starttime # None /\ result = None

\* C7: a successful stop on a running timer leaves it idle with a readable
\* result, the clock reading at the stop minus starttime, and a start()
\* without replace then succeeds; in every cycle of starts and stops.
C7_StopRoundTrip ==
    /\ (op = "stop" /\ ret.kind = "ok") =>
          /\ starttime = None
          /\ result # None
          /\ get(result, args.unit) = ret
          /\ \A t \in Clock : start(starttime, result, t, FALSE, TRUE).ret.kind = "ok"
    /\ starttime # None =>
          \A u \in UnitArgs, cbarg \in CallbackArgs :
              LET e == stop(starttime, result, now, u, cbarg)
              IN  e.ret.kind = "ok" =>
                    /\ e.starttime = None
                    /\ e.result = Some(now - Val(starttime))
                    /\ get(e.result, u) = e.ret
                    /\ e.ret.val = Convert(now - Val(starttime), EffectiveUnit(u))
                    /\ \A t \in Clock :
                          start(e.starttime, e.result, t, FALSE, TRUE).ret.kind = "ok"

\* a stop one tick after the start
C7_Witness ==
    /\ op = "stop" /\ ret.kind = "ok" /\ was_running
    /\ starttime = None /\ result = Some(1)

\* C8: a successful current() stores the time elapsed since starttime as the
\* result and leaves the timer running with starttime unchanged, so that a
\* later current() or stop() of the run measures from the same start.
C8_CurrentKeepsRunning ==
    /\ (op = "current" /\ ret.kind = "ok") =>
          /\ starttime # None
          /\ result # None
          /\ get(result, args.unit) = ret
    /\ starttime # None =>
          \A u \in UnitArgs, cbarg \in CallbackArgs :
              LET e == current(starttime, result, now, u, cbarg)
              IN  e.ret.kind = "ok" =>
                    /\ e.starttime = starttime
                    /\ e.result = Some(now - Val(starttime))
                    /\ \A t \in Clock :
                          /\ current(e.starttime, e.result, t, u, cbarg).result
                                = Some(t - Val(starttime))
                          /\ stop(e.starttime, e.result, t, u, cbarg).result
                                = Some(t - Val(starttime))

\* a current() one tick after a start at reading 0
C8_Witness ==
    /\ op = "current" /\ ret.kind = "ok"
    /\ starttime = Some(0) /\ result = Some(1) /\ now = 1

\* C9: a successful restart(clear, unit, callback) on a running timer returns
\* what stop(unit, callback) would return and invokes the callbacks it would
\* invoke, and leaves the timer running from a fresh clock reading; after it
\* get raises for a missing result if clear, and get(unit) returns what
\* restart returned if not clear.
C9_RestartAsStop ==
    /\ (op = "restart" /\ ret.kind = "ok") =>
          /\ starttime # None
          /\ args.clear => (result = None /\ get(result, args.unit) = Raise("NoResult"))
          /\ ~args.clear => get(result, args.unit) = ret
    /\ starttime # None =>
          \A clear \in BOOLEAN, u \in UnitArgs, cbarg \in CallbackArgs, t2 \in Clock :
              LET e == restart(starttime, result, now, t2, clear, u, cbarg)
                  s == stop(starttime, result, now, u, cbarg)
              IN  e.ret.kind = "ok" =>
                    /\ e.ret = s.ret
                    /\ e.calls = s.calls
                    /\ e.ret.val = Convert(now - Val(starttime), EffectiveUnit(u))
                    /\ e.starttime = Some(t2)
                    /\ clear => get(e.result, u) = Raise("NoResult")
                    /\ ~clear => get(e.result, u) = e.ret

\* restart(clear=False) returned after invoking a callback
C9_Witness ==
    /\ op = "restart" /\ ret.kind = "ok" /\ ~args.clear
    /\ calls # <<>>
    /\ starttime # None /\ result = Some(1)

\* C10: start(replace=True) on a running timer succeeds, leaves it running
\* and sets starttime to the clock reading of the call; every successful
\* start discards the result if clear and leaves it unchanged if not.
C10_StartReplaceClear ==
    /\ (op = "start" /\ was_running /\ args.replace) => ret.kind = "ok"
    /\ (op = "start" /\ ret.kind = "ok") =>
          /\ starttime # None
          /\ args.clear => result = None
    /\ \A replace \in BOOLEAN, clear \in BOOLEAN :
          LET e == start(starttime, result, now, replace, clear)
          IN  /\ (starttime # None /\ replace) =>
                    (e.ret.kind = "ok" /\ e.starttime = Some(now))
              /\ e.ret.kind = "ok" =>
                    e.result = IF clear THEN None ELSE result

\* start(replace=True, clear=False) on a running timer that holds a result
C10_Witness ==
    /\ op = "start" /\ was_running /\ args.replace /\ ~args.clear
    /\ ret.kind = "ok"
    /\ starttime = Some(1) /\ result # None

\* the callable a call delivers to: self.callback for True, else its argument
Selected(cbarg) == IF cbarg = "True" THEN callback ELSE cbarg
\* the callbacks a successful call invokes for its callback argument, with
\* the value v, the timer's fields being st and res
Delivered(cbarg, v, st, res) ==
    IF Selected(cbarg) \in {"None", "False"} THEN <<>>
    ELSE <<[cb |-> Selected(cbarg), arg |-> v, starttime |-> st, result |-> res]>>

\* C11 as stated: measure(fn, unit, callback) on an idle timer, fn returning:
\* the selected callback is delivered exactly once with the elapsed value
\* converted to unit, the timer ends idle with that result readable, and
\* measure returns what fn returned.
C11_MeasureSuccess ==
    (op = "measure" /\ body.exc = "None") =>
        /\ starttime = None
        /\ result # None
        /\ ret = Ok(FnRet)
        /\ get(result, args.unit).kind = "ok"
        /\ calls = Delivered(args.callback, get(result, args.unit).val, None, result)

\* C11, amended: measure(fn, unit, callback) on an idle timer, fn returning
\* without having called the timer, the unit (the default unit for None)
\* supported and the selected callback not raising: fn runs once, after the
\* start and before the stop; the selected callback, if there is one, is
\* invoked exactly once with the elapsed value converted to unit; the timer
\* ends idle with that result readable; measure returns what fn returned.
C11_MeasureSuccessAmended ==
    /\ op = "measure_fn" =>
          (stack # <<>> /\ stack[Len(stack)] = "measure" /\ ret.kind = "ok" /\ ~was_running)
    /\ (op = "measure" /\ body.exc = "None" /\ body.pure
            /\ EffectiveUnit(args.unit) \in SupportedUnits
            /\ Selected(args.callback) # "cbRaise") =>
          /\ starttime = None
          /\ result # None
          /\ ret = Ok(FnRet)
          /\ get(result, args.unit)
                = Ok(Convert(Val(result), EffectiveUnit(args.unit)))
          /\ calls = Delivered(args.callback,
                               Convert(Val(result), EffectiveUnit(args.unit)),
                               None, result)
    /\ starttime # None =>
          \A u \in UnitArgs, cbarg \in CallbackArgs :
              LET e == measure(starttime, result, now, u, cbarg, "None")
                  v == Convert(now - Val(starttime), EffectiveUnit(u))
              IN  (EffectiveUnit(u) \in SupportedUnits /\ Selected(cbarg) # "cbRaise") =>
                    e = Effect(None, Some(now - Val(starttime)), Ok(FnRet),
                               Delivered(cbarg, v, None, Some(now - Val(starttime))))

\* measure(fn, unit="milliseconds", callback=cb2) returned after one tick
C11_Witness ==
    /\ op = "measure" /\ body = Body("None", TRUE)
    /\ args.unit = "milliseconds" /\ args.callback = "cb2"
    /\ ret = Ok(FnRet) /\ Len(calls) = 1
    /\ starttime = None /\ result = Some(1)

\* what a measure or a with statement on a running timer leaves behind
C12_RunningState ==
    (op \in {"measure", "with"} /\ body.exc = "-") =>
        /\ ret = Raise("AlreadyRunning")
        /\ was_running
        /\ starttime # None
        /\ calls = <<>>

\* a measure or with statement begun on a running timer
C12_RunningStep ==
    (starttime # None /\ (MeasureBegin \/ Enter)) =>
        /\ ret' = Raise("AlreadyRunning")
        /\ op' \in {"measure", "with"}
        /\ body' = NoBody
        /\ stack' = stack
        /\ starttime' = starttime
        /\ result' = result
        /\ calls' = <<>>

\* C12: measure(fn) or a with statement on a running timer raises the
\* TimerStateError of start: fn or the body is not run (no frame is entered),
\* nothing is stopped, no callback is invoked, and the timer stays running
\* with starttime and result unchanged.
C12_AlreadyRunning == []C12_RunningState /\ [][C12_RunningStep]_vars

\* measure raised on a running timer that holds a result
C12_Witness ==
    /\ op = "measure" /\ body.exc = "-"
    /\ ret = Raise("AlreadyRunning")
    /\ starttime # None /\ result # None

\* C13: a successful current, stop, restart or measure invokes, for callback
\* True, the configured callback once, or nothing if there is none; for
\* False nothing; for a callable that callable once and not the configured
\* one. The argument of the callback is the value the call returns (for
\* measure, the converted elapsed value).
C13_CallbackDelivery ==
    /\ (op \in {"current", "stop", "restart"} /\ ret.kind = "ok") =>
          /\ Len(calls) <= 1
          /\ Selected(args.callback) \in {"None", "False"} => calls = <<>>
          /\ Selected(args.callback) \notin {"None", "False"} =>
                /\ Len(calls) = 1
                /\ calls[1].cb = Selected(args.callback)
                /\ calls[1].arg = ret.val
          /\ (args.callback = "cb2" /\ callback # "None") =>
                \A i \in 1..Len(calls) : calls[i].cb # callback
    /\ (op = "measure" /\ ret.kind = "ok") =>
          /\ result # None
          /\ calls = Delivered(args.callback, get(result, args.unit).val, None, result)
    /\ starttime # None =>
          \A u \in UnitArgs, cbarg \in CallbackArgs :
              LET c == current(starttime, result, now, u, cbarg)
                  s == stop(starttime, result, now, u, cbarg)
              IN  /\ c.ret.kind = "ok" =>
                        c.calls = Delivered(cbarg, c.ret.val, c.starttime, c.result)
                  /\ s.ret.kind = "ok" =>
                        s.calls = Delivered(cbarg, s.ret.val, s.starttime, s.result)

\* stop(callback=cb2) on a timer constructed with cb1: cb2 got the value
C13_Witness ==
    /\ op = "stop" /\ ret.kind = "ok"
    /\ callback = "cb1" /\ args.callback = "cb2"
    /\ Len(calls) = 1 /\ calls[1].cb = "cb2" /\ calls[1].arg = ret.val

\* what a get leaves behind
C14_GetState ==
    op = "get" => (calls = <<>> /\ ret = get(result, args.unit))

\* a get
C14_GetStep ==
    op' = "get" =>
        \A u \in UnitArgs :
            Get(u) =>
                /\ starttime' = starttime
                /\ result' = result
                /\ calls' = <<>>
                /\ ret' = get(result, u)
                /\ \A u2 \in UnitArgs : get(result', u2) = get(result, u2)

\* C14: get changes neither starttime nor result and invokes no callback,
\* whether it returns or raises; so get(unit) repeated with no other call in
\* between returns the same, and a get in one unit does not change what a get
\* in another unit returns.
C14_GetPure == []C14_GetState /\ [][C14_GetStep]_vars

\* a get that returned on a running timer
C14_Witness ==
    /\ op = "get" /\ ret.kind = "ok" /\ args.unit = "microseconds"
    /\ starttime # None /\ result = Some(1)

\* ---- float division ----
\* ret / 1e3, ret / 1e6 and ret / 1e9 are IEEE 754 binary64 divisions of the
\* int n by a power of ten d, both exactly representable: the quotient is
\* n/d rounded to 53 significant bits, ties to even. The record
\* [type |-> "float", n, div] names that quotient; Float64Residue gives its
\* deviation from n/div. All intermediate values stay below 2^31.
Abs(n) == IF n < 0 THEN -n ELSE n
\* a scaled by the power of two that brings it into (d/2, d], for 1 <= a <= d
Normalise(a, d) ==
    LET q == d \div a
        t == CHOOSE k \in 0..30 : 2^k <= q /\ q < 2^(k + 1)
    IN  a * 2^t
\* 2x modulo m, for 0 <= x < m
DoubleMod(x, m) == IF x >= m - x THEN x - (m - x) ELSE x + x
\* x * 2^k modulo m for k = 2, 4, 8, 16, 32 and 53
Shift2(x, m) == DoubleMod(DoubleMod(x, m), m)
Shift4(x, m) == Shift2(Shift2(x, m), m)
Shift8(x, m) == Shift4(Shift4(x, m), m)
Shift16(x, m) == Shift8(Shift8(x, m), m)
Shift32(x, m) == Shift16(Shift16(x, m), m)
Shift53(x, m) == DoubleMod(Shift4(Shift16(Shift32(x, m), m), m), m)
\* With a == Normalise(|n|, d) and q the 53-bit significand of |n| / d, the
\* integer a * 2^53 - q * d: zero iff the float quotient is exactly n/d,
\* positive if it was rounded towards zero, negative if away from zero.
\* Defined for |n| <= d, which holds for every stored result up to MaxNanos
\* and every divisor of a float conversion.
Float64Residue(n, d) ==
    IF n = 0 THEN 0
    ELSE LET a == Normalise(Abs(n), d)
         IN  IF a = d THEN 0
             ELSE LET x == Shift53(a, d + d)
                      r == x % d
                      odd == x >= d
                      up == (r + r > d) \/ (r + r = d /\ odd)
                  IN  IF up THEN r - d ELSE r
\* the value v of a conversion is exactly n / div
Exact(v) == v.type = "int" \/ Float64Residue(v.n, v.div) = 0
\* the divisor of a supported unit and the power of five in it
Divisor(u) ==
    CASE u = "nanoseconds" -> 1
      [] u = "microseconds" -> 1000
      [] u = "milliseconds" -> 1000000
      [] u = "seconds" -> 1000000000
PowerOfFive(u) ==
    CASE u = "nanoseconds" -> 1
      [] u = "microseconds" -> 125
      [] u = "milliseconds" -> 15625
      [] u = "seconds" -> 1953125

\* ---- specification of the conversions ----
\* A timer after start(), n nanoseconds and stop(u0, callback=False); from
\* there only get is called.
InitConv ==
    /\ \E n \in 0..MaxNanos : now = n /\ result = Some(n)
    /\ starttime = None
    /\ unit \in DefaultUnits
    /\ callback \in Callbacks
    /\ stack = <<>>
    /\ op = "stop"
    /\ \E u0 \in CallUnits :
          /\ args = Args(FALSE, TRUE, u0, "False")
          /\ ret = get(result, IF u0 = "None" THEN unit ELSE u0)
    /\ was_running = TRUE
    /\ calls = <<>>
    /\ body = NoBody
    /\ wrapped = {}
    /\ prevtimer = None
    /\ timers = <<>>
    /\ threads = [t \in Threads |-> ThreadReady]
    /\ single = SingleNew

NextConv == \E u \in UnitArgs : Get(u)

SpecConv == InitConv /\ [][NextConv]_vars

\* C15 as stated: get returns n, n/10^3, n/10^6 or n/10^9 for the stored
\* result n, so that the readings of one result are in exact ratio: the
\* value returned for a unit, times the divisor of the unit, is n.
C15_ExactRatio ==
    (op = "get" /\ ret.kind = "ok") =>
        /\ ret.val.n = Val(result)
        /\ ret.val.div = Divisor(EffectiveUnit(args.unit))
        /\ Exact(ret.val)

\* C15, amended: for a stored result n, get returns the int n for
\* nanoseconds and the float quotient n / 1e3, n / 1e6 or n / 1e9 for
\* microseconds, milliseconds or seconds (the default unit for None). The
\* float is the binary64 number nearest to n/10^k; it is exactly n/10^k iff
\* 5^k divides n, so the readings are in exact ratio only up to rounding. The
\* value depends only on n and the requested unit, not on the unit of the
\* call that stored the result.
C15_Conversion ==
    (op = "get" /\ ret.kind = "ok") =>
        LET u == EffectiveUnit(args.unit)
            n == Val(result)
        IN  /\ u \in SupportedUnits
            /\ ret.val = Convert(n, u)
            /\ ret.val.n = n /\ ret.val.div = Divisor(u)
            /\ ret.val.type = (IF u = "nanoseconds" THEN "int" ELSE "float")
            /\ Exact(ret.val) <=> (n % PowerOfFive(u) = 0)
            /\ ret.val.type = "float" =>
                  2 * Abs(Float64Residue(n, Divisor(u))) <= Divisor(u)
            /\ \A u0 \in UnitArgs :
                  LET s == stop(Some(0), None, n, u0, "False")
                  IN  get(s.result, args.unit) = ret

\* get("microseconds") of a result of 125 ns, stored by a stop in another unit
C15_Witness ==
    /\ op = "get" /\ args.unit = "microseconds"
    /\ result = Some(125)
    /\ ret = Ok(Convert(125, "microseconds"))
    /\ Exact(ret.val)

\* the unit a call converts to is not one of the four
BadUnit(u) == EffectiveUnit(u) \notin SupportedUnits

\* C16 as stated: every get, current, stop, restart or measure that asks for
\* a unit outside the four raises the ValueError of the unit, in every state
\* of the timer, and no such call with one of the four units raises it.
C16_UnsupportedUnit ==
    (op \in {"get", "current", "stop", "restart"}
        \/ (op = "measure" /\ body.exc # "-")) =>
        /\ BadUnit(args.unit) => ret = Raise("UnsupportedUnit")
        /\ ~BadUnit(args.unit) => ret.exc # "UnsupportedUnit"

\* C16, amended: a get, current, stop, restart or measure that asks for a
\* unit outside the four (as argument, or as the default unit for None)
\* always raises, and raises the ValueError of the unit exactly when it
\* reaches the conversion: get with a result stored, current, stop and
\* restart on a running timer, measure whose fn returned with the timer still
\* running. Otherwise the earlier check raises: NoResult for get,
\* NotRunning for current, stop, restart and the stop of measure,
\* AlreadyRunning for measure on a running timer; a measure whose fn raised
\* does not use its unit argument. A get, current, stop or restart, or a
\* measure whose fn returned, with one of the four units never raises the
\* ValueError of the unit; a measure whose fn raised raises it iff the timer
\* is still running and its default unit is outside the four.
C16_UnitErrors ==
    /\ (op = "get" /\ BadUnit(args.unit)) =>
          ret = Raise(IF result = None THEN "NoResult" ELSE "UnsupportedUnit")
    /\ ((op \in {"current", "stop", "restart"} \/ (op = "measure" /\ body.exc = "None"))
            /\ BadUnit(args.unit)) =>
          ret = Raise(IF was_running THEN "UnsupportedUnit" ELSE "NotRunning")
    /\ ((op \in {"get", "current", "stop", "restart"} \/ (op = "measure" /\ body.exc = "None"))
            /\ ~BadUnit(args.unit)) =>
          ret.exc # "UnsupportedUnit"
    /\ (op = "measure" /\ body.exc = "-") => ret = Raise("AlreadyRunning")
    /\ (op = "measure" /\ body.exc \in BodyErrors) =>
          /\ ret.kind = "raise"
          /\ ret.exc = "UnsupportedUnit" <=> (was_running /\ unit \notin SupportedUnits)
    /\ \A u \in UnitArgs :
          /\ BadUnit(u) =>
                get(result, u) = Raise(IF result = None THEN "NoResult" ELSE "UnsupportedUnit")
          /\ ~BadUnit(u) => get(result, u).exc # "UnsupportedUnit"
          /\ \A cbarg \in CallbackArgs :
                LET c == current(starttime, result, now, u, cbarg)
                    s == stop(starttime, result, now, u, cbarg)
                    r == restart(starttime, result, now, now, TRUE, u, cbarg)
                    expected == Raise(IF starttime # None THEN "UnsupportedUnit"
                                                         ELSE "NotRunning")
                IN  /\ BadUnit(u) =>
                          (c.ret = expected /\ s.ret = expected /\ r.ret = expected)
                    /\ ~BadUnit(u) =>
                          /\ c.ret.exc # "UnsupportedUnit"
                          /\ s.ret.exc # "UnsupportedUnit"
                          /\ r.ret.exc # "UnsupportedUnit"

\* restart(unit="hours") on a running timer of default unit seconds raised
\* the ValueError, having stored the result
C16_Witness ==
    /\ op = "restart" /\ args.unit = "hours" /\ unit = "seconds"
    /\ was_running
    /\ ret = Raise("UnsupportedUnit")
    /\ result # None

\* C19 as stated: the timestamps of start, current and stop come from a
\* clock that never decreases, so every stored result is a non-negative
\* number of nanoseconds (and the results of successive current and stop
\* calls of one run do not decrease). The timestamps are time.time_ns(), the
\* wall clock, which ClockSetBack sets back.
C19_MonotonicResults ==
    /\ result # None => Val(result) >= 0
    /\ (starttime # None /\ result # None /\ op = "current") =>
          \A u \in UnitArgs, cbarg \in CallbackArgs :
              Val(stop(starttime, result, now, u, cbarg).result) >= Val(result)

\* what a wrap, a decorator and a timed callable leave behind, and what the
\* timed callables of both forms do
C17_WrapState ==
    /\ op \in {"wrap", "decorator"} =>
          /\ ret = Ok(CallableVal)
          /\ calls = <<>>
          /\ body = NoBody
          /\ was_running = (starttime # None)
    /\ op = "timed_fn" =>
          (stack # <<>> /\ stack[Len(stack)] \in wrapped /\ starttime # None)
    /\ (op = "timed" /\ ret.kind = "ok") => (ret = Ok(FnRet) /\ body.exc = "None")
    /\ \A exc \in {"None"} \cup BodyErrors :
          /\ \A w \in wrapped :
                w.kind = "timed" =>
                    timed(w, starttime, result, now, exc)
                        = measure(starttime, result, now, w.unit, w.callback, exc)
          /\ \A kw \in WrapKwargs :
                timed(wrap("call", kw), starttime, result, now, exc)
                    = timed(decorator(wrap("decorator", kw)), starttime, result, now, exc)

\* a wrap or a decorator changes nothing of the timer; a timed callable does
\* the start of measure, then after fn the rest of measure with its kwargs
C17_WrapStep ==
    /\ ((\E form \in {"call", "decorator"}, kw \in WrapKwargs : Wrap(form, kw))
            \/ (\E d \in wrapped : Decorate(d))) =>
          /\ starttime' = starttime
          /\ result' = result
          /\ stack' = stack
          /\ calls' = <<>>
    /\ (\E w \in wrapped : TimedBegin(w)) =>
          LET e == start(starttime, result, now, FALSE, TRUE)
          IN  /\ starttime' = e.starttime /\ result' = e.result
              /\ ret' = e.ret /\ calls' = <<>>
              /\ Len(stack') = Len(stack) + (IF e.ret.kind = "ok" THEN 1 ELSE 0)
    /\ \A exc \in {"None"} \cup BodyErrors :
          TimedEnd(exc) =>
              LET w == stack[Len(stack)]
                  e == measure(starttime, result, now, w.unit, w.callback, exc)
              IN  /\ starttime' = e.starttime /\ result' = e.result
                  /\ ret' = e.ret /\ calls' = e.calls
                  /\ Len(stack') = Len(stack) - 1

\* C17: wrap(fn, **kwargs) and wrap(**kwargs)(fn) only build a callable: the
\* timer is neither started nor stopped, fn is not called and no callback is
\* invoked. Each call of the callable is one measure(fn, **kwargs) on the
\* timer, returning what fn returned when measure returns, and the callables
\* of the two forms behave the same.
C17_WrapBuilds == []C17_WrapState /\ [][C17_WrapStep]_vars

\* the callable made by wrap(unit="milliseconds", callback=cb2)(fn) was
\* called on an idle timer and returned what fn returned, cb2 having been
\* invoked
C17_Witness ==
    LET kw == [unit |-> "milliseconds", callback |-> "cb2"]
    IN  /\ wrapped = {wrap("decorator", kw), decorator(wrap("decorator", kw))}
        /\ op = "timed" /\ body = Body("None", TRUE)
        /\ ret = Ok(FnRet)
        /\ Len(calls) = 1 /\ calls[1].cb = "cb2"
        /\ starttime = None /\ result # None

\* C18: after any calls of timing.start, timing.measure and timing.wrap,
\* prevtimer is the timer the most recent of them constructed (None before
\* the first). timing.wrap, in both forms, sets it when it is called, before
\* any call of the callable it returns, and a call of such a callable (or of
\* a decorator) leaves it alone.
C18_PrevTimer ==
    /\ prevtimer = (IF timers = <<>> THEN None ELSE Some(Len(timers)))
    /\ op = "timing.start" => ret = Ok(TimerVal(Val(prevtimer)))
    /\ op = "timing.wrap" =>
          /\ timers[Val(prevtimer)] = NewTimer
          /\ \E w \in wrapped : w.timer = Val(prevtimer)
    /\ \A w \in wrapped : w.timer \in 1..Len(timers)
    /\ \A k \in 1..Len(stack) : stack[k].timer \in 1..Len(timers)

\* a callable of the first timer was called and returned after a second
\* timing.wrap had constructed the second timer: prevtimer is the second
C18_Witness ==
    /\ op = "timing.timed" /\ ret = Ok(FnRet)
    /\ Len(timers) = 2
    /\ timers[1].result # None
    /\ timers[2] = NewTimer
    /\ prevtimer = Some(2)
    /\ \E w \in wrapped : w.timer = 1 /\ w.kind = "timed"

\* where two threads in start() can be, and how their calls end
C20_ThreadState ==
    /\ \A t \in Threads :
          /\ (threads[t].pc = "done" /\ threads[t].ret.kind = "raise") =>
                (threads[t].ret = Raise("AlreadyRunning") /\ starttime # None)
          /\ (threads[t].pc \in {"clear", "done"} /\ threads[t].ret.kind = "ok") =>
                starttime # None
    /\ (\A t \in Threads : threads[t].pc = "assign") => starttime = None
    /\ \A t \in Threads :
          (threads[t].pc = "done" /\ \A o \in Threads \ {t} : threads[o].pc = "ready") =>
              \E t0 \in Clock :
                  LET e == start(None, None, t0, FALSE, threads[t].clear)
                  IN  /\ threads[t].ret = e.ret
                      /\ starttime = e.starttime /\ result = e.result

\* the test of start neither writes starttime nor looks at the other thread,
\* and the assignment does not test again
C20_ThreadStep ==
    \A t \in Threads :
        /\ ThreadCheck(t) =>
              /\ starttime' = starttime /\ result' = result
              /\ starttime = None => threads'[t].pc = "assign"
        /\ ThreadAssign(t) =>
              /\ starttime' = Some(now)
              /\ threads'[t].ret = Ok(NoneVal)
              /\ threads'[t].pc \in {"clear", "done"}

\* C20: start has no lock. Its test of starttime and its assignment are
\* separate steps, the test passes whenever starttime is None, whatever
\* another thread in start has done, and a thread that passed the test
\* assigns and returns. So two threads calling start() on an idle timer can
\* both pass the test before either assigns, and then both calls return
\* without a TimerStateError.
C20_NoLocking == []C20_ThreadState /\ [][C20_ThreadStep]_vars

\* both threads called start() on the idle timer and both calls returned
C20_Witness ==
    /\ \A t \in Threads :
          threads[t].pc = "done" /\ threads[t].ret = Ok(NoneVal)
    /\ starttime # None

\* C21: current, stop and restart invoke the callback after the result is
\* stored and, for stop and restart, after starttime is cleared; restart
\* reads the clock for the fresh run after the callback returned. So while
\* the callback runs get(unit) returns the value it was given and, in stop
\* and restart, the timer is idle; and a callback that raises leaves the
\* result stored, the timer idle after stop and restart (no fresh run), and
\* running after current.
C21_CallbackOrder ==
    /\ op \in {"current", "stop", "restart"} =>
          /\ \A i \in 1..Len(calls) :
                /\ calls[i].result # None
                /\ get(calls[i].result, args.unit) = Ok(calls[i].arg)
                /\ op = "current" => (calls[i].starttime = starttime /\ starttime # None)
                /\ op \in {"stop", "restart"} => calls[i].starttime = None
                /\ (ret.kind = "ok" /\ ~(op = "restart" /\ args.clear)) =>
                      calls[i].result = result
          /\ (op = "restart" /\ ret.kind = "ok") => starttime # None
          /\ ret = Raise("CallbackError") =>
                /\ Len(calls) = 1
                /\ result = calls[1].result
                /\ op = "current" => starttime # None
                /\ op \in {"stop", "restart"} => starttime = None
    /\ starttime # None =>
          \A cbarg \in CallbackArgs :
              LET elapsed == Some(now - Val(starttime))
                  c == current(starttime, result, now, "None", cbarg)
                  s == stop(starttime, result, now, "None", cbarg)
              IN  /\ \A i \in 1..Len(c.calls) :
                        c.calls[i].starttime = starttime /\ c.calls[i].result = elapsed
                  /\ \A i \in 1..Len(s.calls) :
                        s.calls[i].starttime = None /\ s.calls[i].result = elapsed
                  /\ \A t2 \in {now, now + 1} :
                        LET r == restart(starttime, result, now, t2, FALSE, "None", cbarg)
                        IN  /\ r.calls = s.calls
                            /\ r.ret.kind = "ok" => r.starttime = Some(t2)
                            /\ r.ret.kind = "raise" =>
                                  (r.starttime = None /\ r.result = elapsed)

\* restart with a callback that raised: the timer is idle, the result stored
C21_Witness ==
    /\ op = "restart" /\ was_running
    /\ ret = Raise("CallbackError")
    /\ Len(calls) = 1 /\ calls[1].starttime = None /\ calls[1].result = result
    /\ starttime = None /\ result # None

\* C22: current, stop or restart on a running timer with an unsupported unit
\* raises the ValueError of the unit after it has changed the timer: the
\* elapsed time is stored as the result, stop and restart have made the
\* timer idle (restart starts no fresh run), and no callback is invoked; a
\* get with a supported unit then returns that result.
C22_FailsAfterMutation ==
    /\ (op \in {"current", "stop", "restart"} /\ was_running /\ BadUnit(args.unit)) =>
          /\ ret = Raise("UnsupportedUnit")
          /\ result # None
          /\ calls = <<>>
          /\ op = "current" => starttime # None
          /\ op \in {"stop", "restart"} => starttime = None
          /\ \A u \in SupportedUnits : get(result, u) = Ok(Convert(Val(result), u))
    /\ starttime # None =>
          \A u \in UnitArgs, cbarg \in CallbackArgs :
              BadUnit(u) =>
                  LET elapsed == Some(now - Val(starttime))
                      bad == Raise("UnsupportedUnit")
                  IN  /\ current(starttime, result, now, u, cbarg)
                            = Effect(starttime, elapsed, bad, <<>>)
                      /\ stop(starttime, result, now, u, cbarg)
                            = Effect(None, elapsed, bad, <<>>)
                      /\ \A clear \in BOOLEAN :
                            restart(starttime, result, now, now, clear, u, cbarg)
                                = Effect(None, elapsed, bad, <<>>)

\* stop(unit="hours") on a timer of default unit seconds, running for one
\* tick: it raised, the timer is idle and holds the result 1
C22_Witness ==
    /\ op = "stop" /\ args.unit = "hours" /\ unit = "seconds" /\ was_running
    /\ ret = Raise("UnsupportedUnit")
    /\ starttime = None /\ result = Some(1)
    /\ calls = <<>>

\* the frames of the invocations of timed callables that are executing
TimedFrames == {k \in 1..Len(stack) : stack[k].via = "timed"}
\* timer i belongs to a callable or a decorator that timing.wrap returned
WrapTimer(i) == \E w \in wrapped : w.timer = i
\* the last step was the invocation of a timed callable that failed in the
\* start() of measure, before fn was called
RefusedInvocation == op = "timing.timed" /\ body = NoBody

C23_State ==
    /\ \A i \in 1..Len(timers) :
          (WrapTimer(i) /\ timers[i].starttime # None) =>
              \E k \in TimedFrames : stack[k].timer = i
    /\ op = "timing.decorator" =>
          \E d, w \in wrapped :
              /\ d.kind = "decorator" /\ w.kind = "timed"
              /\ w.form = "decorator" /\ w.timer = d.timer
    /\ RefusedInvocation =>
          (ret = Raise("AlreadyRunning") /\ was_running /\ calls = <<>>)
    /\ (op = "timing.timed" /\ body.exc \notin {"-", "None"}) =>
          (ret.kind = "raise" /\ calls = <<>>)
    /\ (op = "timing.timed" /\ body.exc = "None" /\ body.pure
            /\ unit \in SupportedUnits /\ callback # "cbRaise") => ret = Ok(FnRet)

\* a step that invokes a timed callable is refused exactly when its timer
\* runs, and then changes neither the timer nor the executing invocations;
\* the end of an invocation leaves its timer idle
C23_Step ==
    /\ op' = "timing.timed_fn" /\ stack' # stack =>
          LET i == stack'[Len(stack')].timer
          IN  /\ timers[i].starttime = None
              /\ timers'[i].starttime = Some(now)
              /\ stack' = Append(stack, [timer |-> i, via |-> "timed"])
    /\ RefusedInvocation' => UNCHANGED <<stack, timers>>
    /\ op' = "timing.decorator" => UNCHANGED timers
    /\ (op' = "timing.timed" /\ Len(stack') < Len(stack)) =>
          LET i == stack[Len(stack)].timer
          IN  /\ timers'[i].starttime = None
              /\ stack' = SubSeq(stack, 1, Len(stack) - 1)
              /\ \A j \in 1..Len(timers) : j # i => timers'[j] = timers[j]

Outcome(e) == [starttime |-> e.starttime, result |-> e.result, ret |-> e.ret, calls |-> e.calls]
\* the package timer as it is, for a call that does not reach it
Kept == Effect(starttime, result, ret, calls)

\* the fields and the observations after the method `name` had effect e on
\* the package timer and effect s on the single-file timer
Lockstep(name, a, e, s, b) ==
    /\ starttime' = e.starttime
    /\ result' = e.result
    /\ ret' = e.ret
    /\ calls' = e.calls
    /\ single' = Outcome(s)
    /\ op' = name
    /\ args' = a
    /\ was_running' = (starttime # None)
    /\ body' = b
    /\ UNCHANGED <<unit, callback, wrapped, prevtimer, timers, threads>>

BothStart(replace, clear) ==
    /\ Lockstep("start", Args(replace, clear, "None", "True"),
                start(starttime, result, now, replace, clear),
                start(single.starttime, single.result, now, replace, clear), NoBody)
    /\ UNCHANGED <<now, stack>>

BothCurrent(u, cbarg) ==
    /\ Lockstep("current", Args(FALSE, TRUE, u, cbarg),
                current(starttime, result, now, u, cbarg),
                current(single.starttime, single.result, now, u, cbarg), NoBody)
    /\ UNCHANGED <<now, stack>>

BothStop(u, cbarg) ==
    /\ Lockstep("stop", Args(FALSE, TRUE, u, cbarg),
                stop(starttime, result, now, u, cbarg),
                stop(single.starttime, single.result, now, u, cbarg), NoBody)
    /\ UNCHANGED <<now, stack>>

BothGet(u) ==
    /\ Lockstep("get", Args(FALSE, TRUE, u, "True"),
                Effect(starttime, result, get(result, u), <<>>),
                Effect(single.starttime, single.result, get(single.result, u), <<>>),
                NoBody)
    /\ UNCHANGED <<now, stack>>

BothRestart(clear, u, cbarg) ==
    /\ \E t2 \in {now, now + 1} \cap Clock :
        /\ now' = t2
        /\ Lockstep("restart", Args(FALSE, clear, u, cbarg),
                    restart(starttime, result, now, t2, clear, u, cbarg),
                    restart(single.starttime, single.result, now, t2, clear, u, cbarg),
                    NoBody)
    /\ UNCHANGED stack

\* measure(fn) or the with statement, up to the user code: start() on both
\* timers; the user code runs for a timer whose start() succeeded
BothBegin(kind) ==
    /\ LET e == start(starttime, result, now, FALSE, TRUE)
           s == start(single.starttime, single.result, now, FALSE, TRUE)
           refused == e.ret.kind = "raise" /\ s.ret.kind = "raise"
       IN  /\ ~refused => Len(stack) < MaxDepth
           /\ Lockstep(IF refused THEN kind
                       ELSE IF kind = "measure" THEN "measure_fn" ELSE "with_body",
                       Args(FALSE, TRUE, "None", "True"), e, s, NoBody)
           /\ stack' = IF refused THEN stack
                       ELSE Append(stack, [kind |-> kind,
                                           package |-> e.ret.kind = "ok",
                                           single |-> s.ret.kind = "ok"])
    /\ UNCHANGED now

\* measure(fn, unit, callback) from the return or raise of fn
BothMeasureEnd(u, cbarg, exc) ==
    /\ stack # <<>>
    /\ stack[Len(stack)].kind = "measure"
    /\ LET f == stack[Len(stack)]
       IN  Lockstep("measure", Args(FALSE, TRUE, u, cbarg),
                    IF f.package THEN measure(starttime, result, now, u, cbarg, exc)
                    ELSE Kept,
                    IF f.single
                    THEN measureSingleFile(single.starttime, single.result, now, u, cbarg, exc)
                    ELSE single,
                    Body(exc, op = "measure_fn"))
    /\ stack' = SubSeq(stack, 1, Len(stack) - 1)
    /\ UNCHANGED now

\* the with statement from the end of its body
BothExit(exc) ==
    /\ stack # <<>>
    /\ stack[Len(stack)].kind = "with"
    /\ LET f == stack[Len(stack)]
       IN  Lockstep("with", Args(FALSE, TRUE, "None", "True"),
                    IF f.package THEN exit(starttime, result, now, exc) ELSE Kept,
                    IF f.single THEN exit(single.starttime, single.result, now, exc)
                    ELSE single,
                    Body(exc, op = "with_body"))
    /\ stack' = SubSeq(stack, 1, Len(stack) - 1)
    /\ UNCHANGED now

NextBoth ==
    \/ Tick
    \/ \E replace \in BOOLEAN, clear \in BOOLEAN : BothStart(replace, clear)
    \/ \E u \in CallUnits, cbarg \in CallbackArgs : BothCurrent(u, cbarg)
    \/ \E u \in CallUnits, cbarg \in CallbackArgs : BothStop(u, cbarg)
    \/ \E u \in UnitArgs : BothGet(u)
    \/ \E clear \in BOOLEAN, u \in CallUnits, cbarg \in CallbackArgs :
          BothRestart(clear, u, cbarg)
    \/ \E kind \in {"measure", "with"} : BothBegin(kind)
    \/ \E u \in CallUnits, cbarg \in CallbackArgs, exc \in {"None"} \cup BodyErrors :
          BothMeasureEnd(u, cbarg, exc)
    \/ \E exc \in {"None"} \cup BodyErrors : BothExit(exc)

SpecBoth == Init /\ [][NextBoth]_vars

\* C24: the Timer of the single-file module and the Timer of the package,
\* given the same calls, clock readings and outcomes of the user code (a
\* measured callable that raises included), have the same starttime and
\* result, invoke the same callbacks and return or raise the same.
C24_Equivalent ==
    /\ single.starttime = starttime
    /\ single.result = result
    /\ single.calls = calls
    /\ single.ret = ret
====
